---- MODULE Spec2Model ----
(***************************************************************************)
(* CalDavInterface (cal_dav_interface.py): a client of a remote CalDAV     *)
(* calendar collection.  The remote collection, the client's configured   *)
(* zone, the host's zone and clock are the state; every public method is   *)
(* one action.                                                             *)
(*                                                                         *)
(* Time is counted in clock ticks of one hour (the resolution of the       *)
(* modelled datetime); a zone is its fixed offset from UTC in ticks.        *)
(* Text is a sequence of one-character strings.                            *)
(***************************************************************************)
EXTENDS Integers, Sequences, FiniteSets, TLC

VARIABLES
    calendar,         \* the remote collection: the transport's objects, in its order
    local_timezone,   \* self.local_timezone
    system_timezone,  \* the zone of the host, which datetime.today() and astimezone() of a naive value read
    clock,            \* the current instant (UTC ticks)
    next_url,         \* the identifier the transport gives the next created object
    ret,              \* the call that just returned: its name, arguments and outcome
    observed,         \* the last query the caller made and what it returned
    changed           \* whether the remote collection changed since that query

vars == <<calendar, local_timezone, system_timezone, clock, next_url, ret, observed, changed>>

-----------------------------------------------------------------------------
(* Bounds and input domains *)

MaxObjects == 2

TicksPerDay == 24

Utc == 0

\* the identifiers the transport may hand out are 1..MaxUrl
MaxUrl == 3

Zones == {Utc, 2}

ClockSamples == {23, 24, 25}

Days == {0, 1}

Summaries == {<<"A", "b">>, <<"b", "E">>}

Queries == {<< >>, <<"a", "B">>, <<"e">>}

StartValues == {[kind |-> "date", day |-> 1],
                [kind |-> "aware", wall |-> 25, tz |-> Utc],
                [kind |-> "aware", wall |-> 26, tz |-> 2],
                [kind |-> "naive", wall |-> 25]}

EndValues == {[kind |-> "date", day |-> 2],
              [kind |-> "aware", wall |-> 27, tz |-> Utc],
              [kind |-> "naive", wall |-> 28]}

\* the arguments of create_new_event
NewDates == {[kind |-> "naive", wall |-> 23], [kind |-> "aware", wall |-> 47, tz |-> 2]}

Durations == {1, 3}

-----------------------------------------------------------------------------
(* Values *)

Null == [kind |-> "None"]

Date(d) == [kind |-> "date", day |-> d]

Naive(w) == [kind |-> "naive", wall |-> w]

Aware(w, z) == [kind |-> "aware", wall |-> w, tz |-> z]

Range(s) == {s[i] : i \in DOMAIN s}

\* the absolute instant of an aware datetime
Instant(d) == d.wall - d.tz

\* datetime.today(): the host's wall clock, naive
today == Naive(clock + system_timezone)

\* dt.astimezone(tz): a naive value is read as the host's local time
astimezone(d, tz) ==
    LET utc == IF d.kind = "naive" THEN d.wall - system_timezone ELSE d.wall - d.tz
    IN  Aware(utc + tz, tz)

\* dt.replace(tzinfo=tz): the same wall clock, labelled with zone tz
replace_tzinfo(d, tz) == Aware(d.wall, tz)

\* datetime.combine(d, t): the naive datetime of date d at time-of-day t
combine(d, t) == Naive(d.day * TicksPerDay + t)

\* datetime.min.time() and datetime.max.time(): the first and the last tick of a day
min_time == 0

max_time == TicksPerDay - 1

\* dt.date(): the calendar date of a datetime's wall clock
date_of(d) == Date(d.wall \div TicksPerDay)

\* dt + timedelta of n ticks: wall-clock arithmetic, the zone kept
plus(d, n) == [d EXCEPT !.wall = @ + n]

\* a < b on aware datetimes: their instants are compared
lt(a, b) == Instant(a) < Instant(b)

LowerChar(c) ==
    CASE c = "A" -> "a"
      [] c = "B" -> "b"
      [] c = "E" -> "e"
      [] OTHER -> c

\* str.lower()
lower(s) == [i \in DOMAIN s |-> LowerChar(s[i])]

\* a in b, on text
contains(b, a) ==
    \E i \in 0..(Len(b) - Len(a)) : SubSeq(b, i + 1, i + Len(a)) = a

DefaultTitle == <<"u", "n", "t", "i", "t", "l", "e", "d", " ", "e", "v", "e", "n", "t">>

-----------------------------------------------------------------------------
(* Outcomes of a call *)

Return(v) == [raised |-> FALSE, value |-> v]

Raise(e) == [raised |-> TRUE, error |-> e]

-----------------------------------------------------------------------------
(* Decoding *)

\* decode_dt relabelling a timestamp with the local zone instead of converting it
decode_dt_relabel(dt) ==
    IF dt.kind = "date"
    THEN replace_tzinfo(combine(dt, min_time), Utc)
    ELSE replace_tzinfo(dt, local_timezone)

\* one DTSTART / DTEND property value, decoded
decode_dt(dt) ==
    IF dt.kind = "date"
    THEN replace_tzinfo(combine(dt, min_time), Utc)
    ELSE astimezone(dt, local_timezone)

get_event_details(event) ==
    LET start == IF "DTSTART" \in DOMAIN event.props
                 THEN decode_dt(event.props.DTSTART) ELSE Null
        end   == IF "DTEND" \in DOMAIN event.props
                 THEN decode_dt(event.props.DTEND) ELSE Null
        title == IF "SUMMARY" \in DOMAIN event.props
                 THEN event.props.SUMMARY ELSE DefaultTitle
    IN  [title |-> title, starttime |-> start, endtime |-> end]

\* cal[0].walk("vevent"): the event sub-components of a calendar object, in order
walk(data, name) == SelectSeq(data, LAMBDA c : c.name = name)

\* parse_one attaching the identifier of the collection's first object
parse_one_first_url(event) ==
    LET vevents == walk(event.data, "VEVENT")
    IN  [i \in DOMAIN vevents |->
            get_event_details(vevents[i]) @@ [event_url |-> calendar[1].url]]

\* the mappings of one transport result
parse_one(event) ==
    LET vevents == walk(event.data, "VEVENT")
    IN  [i \in DOMAIN vevents |->
            get_event_details(vevents[i]) @@ [event_url |-> event.url]]

RECURSIVE parse_ics_events(_)
parse_ics_events(events) ==
    IF events = <<>> THEN <<>>
    ELSE parse_ics_events(SubSeq(events, 1, Len(events) - 1))
            \o parse_one(events[Len(events)])

-----------------------------------------------------------------------------
(* Queries *)

\* sorted(..., key=starttime) inserts each element behind the ones not greater than
\* it (a stable order); comparing None with anything raises TypeError
RECURSIVE insert_sorted(_, _)
insert_sorted(done, x) ==
    IF done.raised \/ done.value = <<>>
    THEN IF done.raised THEN done ELSE Return(<<x>>)
    ELSE LET n    == Len(done.value)
             last == done.value[n]
         IN  IF x.starttime = Null \/ last.starttime = Null
             THEN Raise("TypeError")
             ELSE IF lt(x.starttime, last.starttime)
                  THEN LET front == insert_sorted(Return(SubSeq(done.value, 1, n - 1)), x)
                       IN  IF front.raised THEN front
                           ELSE Return(Append(front.value, last))
                  ELSE Return(Append(done.value, x))

RECURSIVE sorted(_)
sorted(events) ==
    IF events = <<>> THEN Return(<<>>)
    ELSE insert_sorted(sorted(SubSeq(events, 1, Len(events) - 1)), events[Len(events)])

\* the scan passing over an event without a start
RECURSIVE scan_next_skip(_, _)
scan_next_skip(sorted_events, i) ==
    IF i > Len(sorted_events) THEN Return(Null)
    ELSE LET event     == sorted_events[i]
             starttime == event.starttime
         IN  IF starttime = Null THEN scan_next_skip(sorted_events, i + 1)
             ELSE LET current_time == replace_tzinfo(today, starttime.tz)
                  IN  IF lt(current_time, starttime) THEN Return(event)
                      ELSE scan_next_skip(sorted_events, i + 1)

\* the scan of get_next_event, from position i of the sorted events
RECURSIVE scan_next(_, _)
scan_next(sorted_events, i) ==
    IF i > Len(sorted_events) THEN Return(Null)
    ELSE LET event     == sorted_events[i]
             starttime == event.starttime
         IN  IF starttime = Null THEN Raise("AttributeError")
             ELSE LET current_time == replace_tzinfo(today, starttime.tz)
                  IN  IF lt(current_time, starttime) THEN Return(event)
                      ELSE scan_next(sorted_events, i + 1)

get_next_event(cal) ==
    LET parsed_events == parse_ics_events(cal)
        sorted_events == sorted(parsed_events)
    IN  IF sorted_events.raised THEN sorted_events
        ELSE scan_next(sorted_events.value, 1)

\* get_events_with_title lowering the stored title only
get_events_with_title_raw(cal, title) ==
    SelectSeq(parse_ics_events(cal),
              LAMBDA event : contains(lower(event.title), title))

get_events_with_title(cal, title) ==
    SelectSeq(parse_ics_events(cal),
              LAMBDA event : contains(lower(event.title), lower(title)))

-----------------------------------------------------------------------------
(* The transport: the remote collection as the CalDAV library presents it *)

\* the instant the server reads a stored DTSTART / DTEND value at
stored_instant(dt) ==
    CASE dt.kind = "date"  -> dt.day * TicksPerDay
      [] dt.kind = "naive" -> dt.wall
      [] dt.kind = "aware" -> Instant(dt)

\* whether a sub-component lies in the time range [from, to) (RFC 4791, 9.9)
in_time_range(c, from, to) ==
    /\ c.name = "VEVENT"
    /\ "DTSTART" \in DOMAIN c.props
    /\ LET s == stored_instant(c.props.DTSTART)
       IN  IF "DTEND" \in DOMAIN c.props
           THEN from < stored_instant(c.props.DTEND) /\ s < to
           ELSE IF c.props.DTSTART.kind = "date"
                THEN from < s + TicksPerDay /\ s < to
                ELSE from <= s /\ s < to

\* calendar.date_search(start, end): the objects with a sub-component in the range,
\* in the collection's order; the naive bounds are sent as UTC instants
date_search(cal, start, end) ==
    LET from == Instant(astimezone(start, Utc))
        to   == Instant(astimezone(end, Utc))
    IN  SelectSeq(cal, LAMBDA o :
            \E j \in DOMAIN o.data : in_time_range(o.data[j], from, to))

\* calendar.event_by_url(url): the position of the live object, or the lookup failure
event_by_url(cal, url) ==
    IF \E i \in DOMAIN cal : cal[i].url = url
    THEN Return(CHOOSE i \in DOMAIN cal : cal[i].url = url)
    ELSE Raise("NotFoundError")

\* calendar.add_event(cal): a new object under a fresh identifier
add_event(cal, data, url) == Append(cal, [url |-> url, data |-> data])

\* a delete that takes the objects behind the addressed one along
delete_rest(cal, i) == SubSeq(cal, 1, i - 1)

\* caldav_event.delete()
delete(cal, i) == SubSeq(cal, 1, i - 1) \o SubSeq(cal, i + 1, Len(cal))

\* caldav_event.save()
save(cal, i, data) == [cal EXCEPT ![i].data = data]

-----------------------------------------------------------------------------
(* Range queries *)

\* get_events_for_timeperiod answering a repeated request from the last answer
get_events_for_timeperiod_cached(cal, startdate, enddate) ==
    IF observed.op = "get_events_for_timeperiod" /\ observed.args = <<startdate, enddate>>
    THEN observed.value
    ELSE parse_ics_events(date_search(cal, startdate, enddate))

get_events_for_timeperiod(cal, startdate, enddate) ==
    parse_ics_events(date_search(cal, startdate, enddate))

get_events_for_date(cal, requested_date) ==
    get_events_for_timeperiod(cal,
        combine(requested_date, min_time),
        combine(requested_date, max_time))

-----------------------------------------------------------------------------
(* Mutations: each yields the collection and the caller's mapping after the call *)

VEvent(props) == [name |-> "VEVENT", props |-> props]

\* create_new_event reading the duration of a full-day event as ticks, not days
create_new_event_ticks(cal, url, title, date, duration, fullday) ==
    LET start == IF fullday THEN date_of(date) ELSE date
        end   == IF fullday
                 THEN date_of(plus(date, duration))
                 ELSE plus(date, duration)
        event == VEvent([SUMMARY |-> title, DTSTART |-> start, DTEND |-> end])
    IN  [calendar |-> add_event(cal, <<event>>, url), out |-> Return(Null)]

create_new_event(cal, url, title, date, duration, fullday) ==
    LET start == IF fullday THEN date_of(date) ELSE date
        end   == IF fullday
                 THEN date_of(plus(date, duration * TicksPerDay))
                 ELSE plus(date, duration)
        event == VEvent([SUMMARY |-> title, DTSTART |-> start, DTEND |-> end])
    IN  [calendar |-> add_event(cal, <<event>>, url), out |-> Return(Null)]

delete_event(cal, event) ==
    LET caldav_event == event_by_url(cal, event.event_url)
    IN  IF caldav_event.raised
        THEN [calendar |-> cal, event |-> event, out |-> caldav_event]
        ELSE [calendar |-> delete(cal, caldav_event.value),
              event |-> event, out |-> Return(Null)]

\* vobject_instance.vevent.summary.value = new_title: the first event sub-component's
\* existing summary is overwritten; a component or property that is not there is an
\* AttributeError
set_summary(data, new_title) ==
    IF walk(data, "VEVENT") = <<>> THEN Raise("AttributeError")
    ELSE LET j == CHOOSE k \in DOMAIN data :
                    /\ data[k].name = "VEVENT"
                    /\ \A m \in 1..(k - 1) : data[m].name # "VEVENT"
         IN  IF "SUMMARY" \notin DOMAIN data[j].props THEN Raise("AttributeError")
             ELSE Return([data EXCEPT ![j].props.SUMMARY = new_title])

\* rename_event writing the new title into the caller's mapping before the lookup
rename_event_eager(cal, event, new_title) ==
    LET caldav_event == event_by_url(cal, event.event_url)
        mapping      == [event EXCEPT !.title = new_title]
    IN  IF caldav_event.raised
        THEN [calendar |-> cal, event |-> mapping, out |-> caldav_event]
        ELSE LET i       == caldav_event.value
                 renamed == set_summary(cal[i].data, new_title)
             IN  IF renamed.raised
                 THEN [calendar |-> cal, event |-> mapping, out |-> renamed]
                 ELSE [calendar |-> save(cal, i, renamed.value),
                       event |-> mapping, out |-> Return(Null)]

rename_event(cal, event, new_title) ==
    LET caldav_event == event_by_url(cal, event.event_url)
    IN  IF caldav_event.raised
        THEN [calendar |-> cal, event |-> event, out |-> caldav_event]
        ELSE LET i       == caldav_event.value
                 renamed == set_summary(cal[i].data, new_title)
             IN  IF renamed.raised
                 THEN [calendar |-> cal, event |-> event, out |-> renamed]
                 ELSE [calendar |-> save(cal, i, renamed.value),
                       event |-> event, out |-> Return(Null)]

-----------------------------------------------------------------------------
(* Remote collections the client may be connected to *)

NoProps == [k \in {} |-> 0]

Opt(name, values) == {NoProps} \cup {[k \in {name} |-> v] : v \in values}

VTimezone == [name |-> "VTIMEZONE", props |-> [TZID |-> <<"Z">>]]

\* one event sub-component, with every combination of summary, start and end
FieldPayloads ==
    {<<VEvent(s @@ a @@ b)>> : s \in Opt("SUMMARY", Summaries),
                               a \in Opt("DTSTART", StartValues),
                               b \in Opt("DTEND", EndValues)}

\* objects that differ in their start, in their summary, or in their sub-components
QueryPayloads ==
    {<<VEvent([SUMMARY |-> <<"A", "b">>] @@ a)>> : a \in Opt("DTSTART", StartValues \ {Aware(25, Utc)})}
    \cup {<<VEvent(s @@ [DTSTART |-> Date(1)])>> : s \in Opt("SUMMARY", Summaries)}
    \cup {<<VTimezone>>,
          <<VTimezone, VEvent([SUMMARY |-> <<"b", "E">>, DTSTART |-> Aware(26, 2)]),
            VEvent([DTSTART |-> Aware(25, Utc), DTEND |-> Aware(27, Utc)])>>}

ServerPayloads ==
    {<<VEvent([SUMMARY |-> <<"A", "b">>, DTSTART |-> Date(1), DTEND |-> Date(2)])>>,
     <<VEvent([DTSTART |-> Aware(25, Utc)])>>,
     <<VTimezone, VEvent([SUMMARY |-> <<"b", "E">>, DTSTART |-> Aware(26, 2)]),
       VEvent([SUMMARY |-> <<"A", "b">>, DTSTART |-> Naive(25)])>>}

\* the collections of at most n objects with payloads from the given set,
\* identified 1, 2, ... in the transport's order
Collections(payloads, n) ==
    UNION {{[i \in 1..k |-> [url |-> i, data |-> f[i]]] : f \in [1..k -> payloads]}
           : k \in 0..n}

NoQuery == [op |-> "none", args |-> << >>, value |-> << >>]

\* a mapping whose identifier the transport never issued
Unknown == [title |-> DefaultTitle, starttime |-> Null, endtime |-> Null, event_url |-> 0]

\* the mappings a caller can hold: those its last query returned, and a foreign one
HeldMappings == Range(observed.value) \cup {Unknown}

-----------------------------------------------------------------------------
(* Actions: one per public method *)

Environment == <<local_timezone, system_timezone>>

GetEventDetails ==
    /\ \E i \in DOMAIN calendar : \E j \in DOMAIN calendar[i].data :
          /\ calendar[i].data[j].name = "VEVENT"
          /\ ret' = [op |-> "get_event_details", args |-> <<calendar[i].data[j]>>,
                     out |-> Return(get_event_details(calendar[i].data[j]))]
    /\ UNCHANGED <<calendar, Environment, clock, next_url, observed, changed>>

ParseIcsEvents ==
    /\ ret' = [op |-> "parse_ics_events", args |-> << >>,
               out |-> Return(parse_ics_events(calendar))]
    /\ UNCHANGED <<calendar, Environment, clock, next_url, observed, changed>>

GetNextEvent ==
    /\ ret' = [op |-> "get_next_event", args |-> << >>, out |-> get_next_event(calendar)]
    /\ UNCHANGED <<calendar, Environment, clock, next_url, observed, changed>>

Query(op, args, value) ==
    /\ ret' = [op |-> op, args |-> args, out |-> Return(value)]
    /\ observed' = [op |-> op, args |-> args, value |-> value]
    /\ changed' = FALSE
    /\ UNCHANGED <<calendar, Environment, clock, next_url>>

GetEventsWithTitle(titles) ==
    \E title \in titles :
        Query("get_events_with_title", <<title>>, get_events_with_title(calendar, title))

GetEventsForTimeperiod(days) ==
    \E startdate, enddate \in {Naive(d * TicksPerDay) : d \in days} :
        /\ startdate.wall < enddate.wall
        /\ Query("get_events_for_timeperiod", <<startdate, enddate>>,
                 get_events_for_timeperiod(calendar, startdate, enddate))

GetEventsForDate(days) ==
    \E requested_date \in {Date(d) : d \in days} :
        Query("get_events_for_date", <<requested_date>>,
              get_events_for_date(calendar, requested_date))

Mutation(op, args, done) ==
    /\ calendar' = done.calendar
    /\ ret' = [op |-> op, args |-> args, out |-> done.out, event |-> done.event]
    /\ changed' = (changed \/ done.calendar # calendar)
    /\ UNCHANGED <<Environment, clock, observed>>

CreateNewEvent(titles, dates, durations) ==
    /\ Len(calendar) < MaxObjects
    /\ next_url <= MaxUrl
    /\ \E title \in titles, date \in dates, duration \in durations, fullday \in BOOLEAN :
          Mutation("create_new_event", <<title, date, duration, fullday>>,
                   create_new_event(calendar, next_url, title, date, duration, fullday)
                        @@ [event |-> Null])
    /\ next_url' = next_url + 1

DeleteEvent ==
    /\ \E event \in HeldMappings :
          Mutation("delete_event", <<event>>, delete_event(calendar, event))
    /\ UNCHANGED next_url

RenameEvent(titles) ==
    /\ \E event \in HeldMappings, new_title \in titles :
          Mutation("rename_event", <<event, new_title>>,
                   rename_event(calendar, event, new_title))
    /\ UNCHANGED next_url

\* time passes between two calls
Tick ==
    /\ \E t \in ClockSamples : t > clock /\ clock' = t
    /\ ret' = [op |-> "tick", args |-> << >>, out |-> Return(Null)]
    /\ UNCHANGED <<calendar, Environment, next_url, observed, changed>>

-----------------------------------------------------------------------------
(* Specifications *)

Connected(collections, zones, clocks) ==
    /\ local_timezone \in zones
    /\ system_timezone \in zones
    /\ clock \in clocks
    /\ calendar \in collections
    /\ next_url = Len(calendar) + 1
    /\ ret = [op |-> "init", args |-> << >>, out |-> Return(Null)]
    /\ observed = NoQuery
    /\ changed = FALSE

\* the client's life against a collection that other clients filled before
Init == Connected(Collections(ServerPayloads, 1), {2}, {24})

Next ==
    \/ CreateNewEvent({<<"b">>}, {Naive(23)}, {1})
    \/ DeleteEvent
    \/ RenameEvent({<<"b">>})
    \/ GetEventsWithTitle({<<"B">>})
    \/ GetEventsForTimeperiod({0, 2})
    \/ GetEventsForDate({1})
    \/ GetNextEvent

Spec == Init /\ [][Next]_vars

\* the decoding and the queries over every kind of stored object
InitRead ==
    Connected(Collections(QueryPayloads, MaxObjects) \cup Collections(FieldPayloads, 1),
              Zones, ClockSamples)

NextRead ==
    \/ GetEventDetails
    \/ ParseIcsEvents
    \/ GetNextEvent
    \/ GetEventsWithTitle(Queries)
    \/ Tick

SpecRead == InitRead /\ [][NextRead]_vars

\* creation, with every kind of argument
InitCreate == Connected(Collections(ServerPayloads, 1), {Utc}, {24})

NextCreate ==
    \/ CreateNewEvent(Summaries, NewDates, Durations)
    \/ ParseIcsEvents

SpecCreate == InitCreate /\ [][NextCreate]_vars

-----------------------------------------------------------------------------
(* Vocabulary of the properties *)

Live(cal, url) == \E i \in DOMAIN cal : cal[i].url = url

\* the event sub-components of a collection, as <<object, sub-component>> positions
Vevents(cal) ==
    UNION {{<<i, j>> : j \in {k \in DOMAIN cal[i].data : cal[i].data[k].name = "VEVENT"}}
           : i \in DOMAIN cal}

Before(p, q) == p[1] < q[1] \/ (p[1] = q[1] /\ p[2] < q[2])

\* the place of position p among the positions ps, counted in order from 1
Place(p, ps) == 1 + Cardinality({q \in ps : Before(q, p)})

\* what a stored value must decode to
DecodesTo(props, name, v) ==
    IF name \notin DOMAIN props THEN v = Null
    ELSE LET dt == props[name]
         IN  /\ v.kind = "aware"
             /\ IF dt.kind = "date"
                THEN /\ v.tz = Utc
                     /\ v.wall \div TicksPerDay = dt.day
                     /\ v.wall % TicksPerDay = 0
                ELSE /\ v.tz = local_timezone
                     /\ Instant(v) = dt.wall - (IF dt.kind = "aware" THEN dt.tz
                                                ELSE system_timezone)

CasePairs == {<<"a", "A">>, <<"b", "B">>, <<"e", "E">>}

SameLetter(a, b) == a = b \/ <<a, b>> \in CasePairs \/ <<b, a>> \in CasePairs

\* t occurs in title, letter case set aside
ContainsIgnoringCase(title, t) ==
    \E i \in 0..(Len(title) - Len(t)) :
        \A k \in 1..Len(t) : SameLetter(title[i + k], t[k])

-----------------------------------------------------------------------------
(* Properties of the decoding and the queries, under SpecRead *)

\* C1: when every decoded event has a start, get_next_event() returns an event whose
\* start instant is the least among the events starting strictly after the current
\* instant, and None exactly when no event starts strictly after it.
C1_NextEventIsEarliestAfterNow ==
    (ret.op = "get_next_event"
        /\ \A m \in Range(parse_ics_events(calendar)) : m.starttime # Null) =>
        LET all    == parse_ics_events(calendar)
            future == {k \in DOMAIN all : Instant(all[k].starttime) > clock}
        IN  /\ ~ret.out.raised
            /\ IF future = {} THEN ret.out.value = Null
               ELSE /\ ret.out.value # Null
                    /\ \E k \in future : ret.out.value = all[k]
                    /\ \A k \in future :
                          Instant(ret.out.value.starttime) <= Instant(all[k].starttime)

\* C2: get_events_with_title(t) returns exactly the decoded events of the whole
\* collection whose title contains t, letter case set aside, in the transport's order.
C2_TitleSearchIsExactFilter ==
    ret.op = "get_events_with_title" =>
        LET all  == parse_ics_events(calendar)
            hits == {k \in DOMAIN all : ContainsIgnoringCase(all[k].title, ret.args[1])}
            rank(k) == 1 + Cardinality({h \in hits : h < k})
        IN  /\ Len(ret.out.value) = Cardinality(hits)
            /\ \A k \in hits : ret.out.value[rank(k)] = all[k]

C2_Witness ==
    /\ ret.op = "get_events_with_title"
    /\ ret.args[1] = <<"a", "B">>
    /\ Len(ret.out.value) = 1
    /\ Len(parse_ics_events(calendar)) = 2
    /\ ret.out.value[1] = parse_ics_events(calendar)[2]

\* C4: get_event_details decodes DTSTART and DTEND each on its own: a date becomes
\* midnight of that date in UTC, a timestamp the same instant in the configured local
\* zone, an absent field None; what is not None is timezone-aware.
C4_DecodedTimes ==
    ret.op = "get_event_details" =>
        /\ DecodesTo(ret.args[1].props, "DTSTART", ret.out.value.starttime)
        /\ DecodesTo(ret.args[1].props, "DTEND", ret.out.value.endtime)

C4_Witness ==
    /\ ret.op = "get_event_details"
    /\ local_timezone # Utc
    /\ "DTSTART" \in DOMAIN ret.args[1].props
    /\ "DTEND" \in DOMAIN ret.args[1].props
    /\ ret.args[1].props.DTSTART.kind = "date"
    /\ ret.args[1].props.DTEND.kind = "aware"
    /\ ret.out.value.endtime.wall # ret.args[1].props.DTEND.wall

\* C6: when some event of the collection decodes with no start, get_next_event()
\* raises, whatever the other events and wherever that event stands.
C6_NullStartRaises ==
    (ret.op = "get_next_event"
        /\ \E m \in Range(parse_ics_events(calendar)) : m.starttime = Null)
        => ret.out.raised

C6_Witness ==
    /\ ret.op = "get_next_event"
    /\ ret.out.raised
    /\ Len(calendar) = 2
    /\ LET all == parse_ics_events(calendar)
       IN  /\ Len(all) = 2
           /\ all[1].starttime # Null
           /\ Instant(all[1].starttime) > clock
           /\ all[2].starttime = Null

\* C9: parse_ics_events returns one mapping per event sub-component of each result,
\* in the order of the results and of the sub-components, each with the identifier of
\* the result it was decoded from.
C9_OneMappingPerSubcomponent ==
    ret.op = "parse_ics_events" =>
        LET ps == Vevents(calendar)
        IN  /\ Len(ret.out.value) = Cardinality(ps)
            /\ \A p \in ps :
                  LET m == ret.out.value[Place(p, ps)]
                  IN  /\ m.event_url = calendar[p[1]].url
                      /\ [f \in {"title", "starttime", "endtime"} |-> m[f]]
                            = get_event_details(calendar[p[1]].data[p[2]])

C9_Witness ==
    /\ ret.op = "parse_ics_events"
    /\ Len(calendar) = 2
    /\ Len(ret.out.value) = 3
    /\ ret.out.value[1].event_url = 1
    /\ ret.out.value[2].event_url = 2
    /\ ret.out.value[3].event_url = 2
    /\ ret.out.value[2].title # ret.out.value[3].title

-----------------------------------------------------------------------------
(* Properties of creation, under SpecCreate *)

\* C5: the event create_new_event submits ends where its start, advanced by the
\* duration, lies: a full-day event starts on the calendar date of start and ends
\* duration days later, both dates; a timed event starts at start and ends duration
\* later, both timestamps.
C5_EndIsStartPlusDuration ==
    ret.op = "create_new_event" =>
        LET title    == ret.args[1]
            date     == ret.args[2]
            duration == ret.args[3]
            fullday  == ret.args[4]
            object   == calendar[Len(calendar)]
        IN  /\ object.url = next_url - 1
            /\ Len(object.data) = 1
            /\ object.data[1].name = "VEVENT"
            /\ DOMAIN object.data[1].props = {"SUMMARY", "DTSTART", "DTEND"}
            /\ object.data[1].props.SUMMARY = title
            /\ LET dtstart == object.data[1].props.DTSTART
                   dtend   == object.data[1].props.DTEND
               IN  IF fullday
                   THEN /\ dtstart.kind = "date" /\ dtend.kind = "date"
                        /\ dtstart.day * TicksPerDay <= date.wall
                        /\ date.wall < (dtstart.day + 1) * TicksPerDay
                        /\ dtend.day = dtstart.day + duration
                   ELSE /\ dtstart = date
                        /\ dtend.kind = date.kind
                        /\ dtend.wall = date.wall + duration
                        /\ (date.kind = "aware" => dtend.tz = date.tz)

C5_Witness ==
    /\ ret.op = "create_new_event"
    /\ ret.args[4]
    /\ ret.args[3] = 3
    /\ ret.args[2].wall % TicksPerDay # 0
    /\ calendar[Len(calendar)].data[1].props.DTEND.kind = "date"

-----------------------------------------------------------------------------
(* Properties of the client's life, under Spec *)

IsQuery(op) ==
    op \in {"get_events_with_title", "get_events_for_timeperiod", "get_events_for_date"}

\* mapping m is the decoding of an event sub-component the collection holds now
Fresh(m, cal) ==
    \E p \in Vevents(cal) :
        /\ cal[p[1]].url = m.event_url
        /\ [f \in {"title", "starttime", "endtime"} |-> m[f]]
              = get_event_details(cal[p[1]].data[p[2]])

\* no query the client offers returns a mapping that carries the identifier
NoQueryReturns(cal, url) ==
    /\ \A title \in Queries :
          \A m \in Range(get_events_with_title(cal, title)) : m.event_url # url
    /\ \A d \in Days :
          \A m \in Range(get_events_for_date(cal, Date(d))) : m.event_url # url
    /\ \A m \in Range(get_events_for_timeperiod(cal,
                        Naive(0), Naive(3 * TicksPerDay))) : m.event_url # url
    /\ LET next == get_next_event(cal)
       IN  (~next.raised /\ next.value # Null) => next.value.event_url # url

\* the mappings a call handed to its caller
Returned(r) ==
    IF IsQuery(r.op) THEN Range(r.out.value)
    ELSE IF r.op = "get_next_event" /\ ~r.out.raised /\ r.out.value # Null
         THEN {r.out.value}
         ELSE {}

\* C3: delete_event(e) or rename_event(e, t) with an identifier that resolves to no
\* live object fails with the transport's lookup failure, and the mapping e and the
\* remote collection are left as they were.
C3_FailedLookupChangesNothing ==
    [][(ret'.op \in {"delete_event", "rename_event"}
            /\ ~Live(calendar, ret'.args[1].event_url)) =>
        /\ ret'.out = Raise("NotFoundError")
        /\ ret'.event = ret'.args[1]
        /\ calendar' = calendar]_vars

C3_Witness ==
    /\ ret.op = "rename_event"
    /\ ret.out = Raise("NotFoundError")
    /\ ret.args[1].event_url > 0
    /\ ret.args[1].title # ret.args[2]
    /\ calendar # << >>

\* C7: delete_event(e) with an identifier that resolves to a live object removes that
\* object and no other; from then on no query returns a mapping with that identifier.
C7_DeleteRemovesExactlyThatObject ==
    /\ [][(ret'.op = "delete_event" /\ Live(calendar, ret'.args[1].event_url)) =>
            LET url == ret'.args[1].event_url
            IN  /\ ~ret'.out.raised
                /\ Len(calendar') = Len(calendar) - 1
                /\ calendar' = SelectSeq(calendar, LAMBDA o : o.url # url)
                /\ NoQueryReturns(calendar', url)]_vars
    /\ [][\A url \in 1..MaxUrl :
            (url < next_url /\ ~Live(calendar, url)) =>
                /\ ~Live(calendar', url)
                /\ \A m \in Returned(ret') : m.event_url # url]_vars

C7_Witness ==
    /\ ret.op = "delete_event"
    /\ ~ret.out.raised
    /\ Len(calendar) = 1
    /\ calendar[1].url = 2
    /\ ret.args[1].event_url = 1

\* C8: rename_event(e, t) with an identifier that resolves to a live object sets that
\* object's summary to t and stores it; its start, end and identifier and every other
\* object stay; a title search afterwards returns the event with title t and the
\* identifier, start and end it had.
C8_RenameSetsSummary ==
    [][(ret'.op = "rename_event" /\ Live(calendar, ret'.args[1].event_url)) =>
        LET url  == ret'.args[1].event_url
            t    == ret'.args[2]
            i    == CHOOSE k \in DOMAIN calendar : calendar[k].url = url
        IN  /\ ~ret'.out.raised
            /\ DOMAIN calendar' = DOMAIN calendar
            /\ \A k \in DOMAIN calendar : k # i => calendar'[k] = calendar[k]
            /\ calendar'[i].url = url
            /\ \E m \in Range(get_events_with_title(calendar', t)) :
                    m = [ret'.args[1] EXCEPT !.title = t]]_vars

\* C10: the client keeps no event state between calls: what a query returns is decoded
\* from the objects the collection holds at that call, and a query repeated with the
\* same arguments, the collection not having changed in between, returns the same.
C10_QueriesReadTheCollection ==
    [][IsQuery(ret'.op) =>
        /\ \A m \in Range(ret'.out.value) : Fresh(m, calendar')
        /\ (observed.op = ret'.op /\ observed.args = ret'.args /\ ~changed)
                => ret'.out.value = observed.value]_vars

C10_Witness ==
    /\ IsQuery(ret.op)
    /\ ret.out.value # << >>
    /\ next_url > Len(calendar) + 1
    /\ \E m \in Range(ret.out.value) : m.title = ret.out.value[1].title /\ m.event_url = next_url - 1

====
